---- MODULE Spec2Model ----
(***************************************************************************)
(* Model of the webhook service: the /submit_call handler                  *)
(* (routes/submit_call.py), the /contacts handler (routes/contacts.py)     *)
(* and the Calls1 table (db.py).                                           *)
(*                                                                         *)
(* Encodings                                                               *)
(*   - a JSON value is a record [t, v]: t is the JSON type, v the value;   *)
(*     Python's None is JNull, and dict.get of a missing key gives JNull.  *)
(*   - a string that the code cuts or trims (the Authorization header,     *)
(*     the configured secret, the summary text of the platform's answer)   *)
(*     is a sequence of one-character strings; a string the code only      *)
(*     copies or compares is a TLA+ string.                                *)
(*   - a table is a set of rows; a row is a function from column names.    *)
(***************************************************************************)
EXTENDS Integers, Sequences, FiniteSets, TLC

VARIABLES
    secret,          \* the API_KEY_SECRET environment variable
    calls1_columns,  \* the columns of table Calls1 in the database
    calls,           \* the rows of table Calls1
    contacts,        \* the rows of table contacts
    now,             \* the database clock, NOW()
    req,             \* the request handled last
    resp,            \* the response to it
    before,          \* the request handled before that one (history)
    accepted,        \* the call ids of the events stored so far (history)
    inflight         \* per worker, the submit_call request it is handling

vars ==
    <<secret, calls1_columns, calls, contacts, now, req, resp, before, accepted, inflight>>

\* The number of requests of a run; NOW() advances by one per request.
MaxNow == 3

(***************************************************************************)
(* JSON values and the Python operations the handlers apply to them.       *)
(***************************************************************************)
JNull == [t |-> "null", v |-> ""]
JStr(s) == [t |-> "str", v |-> s]
JText(cs) == [t |-> "text", v |-> cs]
JNum(n) == [t |-> "num", v |-> n]
JList(s) == [t |-> "list", v |-> s]
JObj(f) == [t |-> "obj", v |-> f]
EmptyObj == JObj(<<>>)
EmptyList == JList(<<>>)

IsObj(x) == x.t = "obj"
IsList(x) == x.t = "list"
IsString(x) == x.t \in {"str", "text"}

\* Python truth value: None, "", 0, [] and {} are false.
Truthy(x) ==
    CASE x.t = "null" -> FALSE
      [] x.t = "str" -> x.v # ""
      [] x.t = "text" -> Len(x.v) > 0
      [] x.t = "num" -> x.v # 0
      [] x.t = "list" -> Len(x.v) > 0
      [] x.t = "obj" -> DOMAIN x.v # {}
      [] OTHER -> TRUE

\* a or b
OrElse(a, b) == IF Truthy(a) THEN a ELSE b

\* d.get(k) on a dict d (on anything else Python raises AttributeError:
\* the callers decide that with IsObj before they rely on the value).
Get(d, k) == IF IsObj(d) /\ k \in DOMAIN d.v THEN d.v[k] ELSE JNull

(***************************************************************************)
(* Strings as character sequences: str.startswith, str.replace(p, ""),     *)
(* str.strip().                                                            *)
(***************************************************************************)
Whitespace == {" ", "\t", "\n", "\r"}

StartsWith(s, p) == Len(s) >= Len(p) /\ SubSeq(s, 1, Len(p)) = p

RECURSIVE RemoveAll(_, _)
RemoveAll(s, p) ==
    IF Len(s) < Len(p) THEN s
    ELSE IF StartsWith(s, p) THEN RemoveAll(SubSeq(s, Len(p) + 1, Len(s)), p)
    ELSE <<Head(s)>> \o RemoveAll(Tail(s), p)

RECURSIVE LStrip(_)
LStrip(s) == IF s # <<>> /\ Head(s) \in Whitespace THEN LStrip(Tail(s)) ELSE s

RECURSIVE RStrip(_)
RStrip(s) ==
    IF s # <<>> /\ s[Len(s)] \in Whitespace THEN RStrip(SubSeq(s, 1, Len(s) - 1)) ELSE s

Strip(s) == RStrip(LStrip(s))

BearerPrefix == <<"B", "e", "a", "r", "e", "r", " ">>

(***************************************************************************)
(* The auth gate, the same lines in both handlers.                         *)
(* expected_key and auth_header are [set, v]: os.environ.get and           *)
(* headers.get give None (set = FALSE) for a missing entry.                *)
(***************************************************************************)
Unset == [set |-> FALSE, v |-> <<>>]
Given(cs) == [set |-> TRUE, v |-> cs]

\* not x, for an optional string
NotStr(x) == ~x.set \/ x.v = <<>>

\* token = auth_header.replace("Bearer ", "").strip()
Token(auth_header) == Strip(RemoveAll(auth_header.v, BearerPrefix))

TokenMatches(token, expected_key) == token = expected_key.v

\* A gate that looks for an unset secret only ("is None"), so that an empty
\* secret is compared with the token.
AuthGateUnsetOnly(expected_key, auth_header) ==
    IF ~expected_key.set THEN "no_secret"
    ELSE IF NotStr(auth_header) \/ ~StartsWith(auth_header.v, BearerPrefix) THEN "missing"
    ELSE IF ~TokenMatches(Token(auth_header), expected_key) THEN "invalid"
    ELSE "ok"

AuthGate(expected_key, auth_header) ==
    IF NotStr(expected_key) THEN "no_secret"
    ELSE IF NotStr(auth_header) \/ ~StartsWith(auth_header.v, BearerPrefix) THEN "missing"
    ELSE IF ~TokenMatches(Token(auth_header), expected_key) THEN "invalid"
    ELSE "ok"

(***************************************************************************)
(* fetch_call_from_vapi and extract_summary_from_call.                     *)
(* The platform's part is the outcome of the GET: its kind, and for a      *)
(* body that parses as JSON the parsed value.                              *)
(***************************************************************************)
\* A debug string: which message, for which call id. NoDebug is None.
Debug(kind, call_id) == [kind |-> kind, text |-> <<>>, call_id |-> call_id]
NoDebug == Debug("none", JNull)
\* A summary text, in the same shape as a debug string: the summary column
\* holds one or the other.
Summary(cs) == [kind |-> "summary", text |-> cs, call_id |-> JNull]

Outcome(kind, data) == [kind |-> kind, data |-> data]
\* No GET was issued.
NotCalled == Outcome("not_called", JNull)

\* (call_dict, debug_info)
fetch_call_from_vapi(call_id, outcome) ==
    CASE outcome.kind = "no_key" ->
            [data |-> JNull, debug |-> Debug("call_api: VAPI_API_KEY not set", call_id)]
      [] outcome.kind = "timeout" ->
            [data |-> JNull, debug |-> Debug("call_api: request timed out", call_id)]
      [] outcome.kind = "request_error" ->
            [data |-> JNull, debug |-> Debug("call_api: request failed", call_id)]
      [] outcome.kind = "bad_json" ->
            [data |-> JNull, debug |-> Debug("call_api: failed to parse JSON", call_id)]
      [] OTHER -> [data |-> outcome.data, debug |-> NoDebug]

\* isinstance(x, str) and x.strip()
NonBlankString(x) == x.t = "text" /\ Strip(x.v) # <<>>

\* call_data.get on a value that is neither None nor a dict, or analysis.get
\* on a true value that is no dict, raises AttributeError.
SummaryRaises(call_data) ==
    /\ call_data # JNull
    /\ \/ ~IsObj(call_data)
       \/ /\ ~NonBlankString(Get(call_data, "summary"))
          /\ ~IsObj(OrElse(Get(call_data, "analysis"), EmptyObj))

\* (summary, debug_info), when it does not raise
extract_summary_from_call(call_data, call_id) ==
    IF call_data = JNull
    THEN [summary |-> NoDebug, debug |-> Debug("call_summary: call_data is None", call_id)]
    ELSE LET summary == Get(call_data, "summary")
             analysis == OrElse(Get(call_data, "analysis"), EmptyObj)
             analysis_summary == Get(analysis, "summary")
         IN  IF NonBlankString(summary)
             THEN [summary |-> Summary(Strip(summary.v)), debug |-> NoDebug]
             ELSE IF NonBlankString(analysis_summary)
             THEN [summary |-> Summary(Strip(analysis_summary.v)), debug |-> NoDebug]
             ELSE [summary |-> NoDebug,
                   debug |-> Debug("call_summary: call.summary empty or missing", call_id)]

\* Lines 221-227: the value of the call_summary parameter.
\* summary_debug or call_api_debug: a debug string is never empty.
CallSummary(call_id, outcome) ==
    LET fetched == fetch_call_from_vapi(call_id, outcome)
        got == extract_summary_from_call(fetched.data, call_id)
    IN  IF got.summary # NoDebug THEN got.summary
        ELSE IF got.debug # NoDebug THEN got.debug
        ELSE fetched.debug

EnrichmentRaises(call_id, outcome) ==
    SummaryRaises(fetch_call_from_vapi(call_id, outcome).data)

(***************************************************************************)
(* submit_call, lines 128-218: field extraction.                           *)
(***************************************************************************)
Message(data) == OrElse(Get(data, "message"), EmptyObj)
CallObj(message) == OrElse(Get(message, "call"), EmptyObj)
PhoneNumberObj(message) == OrElse(Get(message, "phoneNumber"), EmptyObj)
AssistantObj(message) == OrElse(Get(message, "assistant"), EmptyObj)
ArtifactObj(message) == OrElse(Get(message, "artifact"), EmptyObj)
Transport(call_obj) == OrElse(Get(call_obj, "transport"), EmptyObj)
ModelObj(assistant_obj) == OrElse(Get(assistant_obj, "model"), EmptyObj)
VoiceObj(assistant_obj) == OrElse(Get(assistant_obj, "voice"), EmptyObj)

\* Lines 134 and 176-177: the top-level customer, else the call's.
CustomerObj(message, call_obj) ==
    LET customer_obj == OrElse(Get(message, "customer"), EmptyObj)
    IN  IF ~Truthy(customer_obj) THEN OrElse(Get(call_obj, "customer"), EmptyObj)
        ELSE customer_obj

\* Line 143
CallId(data) == Get(CallObj(Message(data)), "id")

\* Lines 149-154
OrgId(data, message, call_obj, assistant_obj) ==
    OrElse(Get(call_obj, "orgId"),
      OrElse(Get(assistant_obj, "orgId"),
        OrElse(Get(message, "orgId"), Get(data, "orgId"))))

\* Lines 183-187
PhoneNumberId(message, phone_number_obj, call_obj) ==
    OrElse(Get(message, "phoneNumberId"),
      OrElse(Get(phone_number_obj, "id"), Get(call_obj, "phoneNumberId")))

\* Lines 205-218: the scan of artifact.messages from its end; i is the
\* position looked at next, 0 when the list is exhausted.
RECURSIVE ScanMessages(_, _, _, _)
ScanMessages(msgs, i, last_user_message, last_assistant_message) ==
    IF i = 0
    THEN [raised |-> FALSE, user |-> last_user_message,
          assistant |-> last_assistant_message]
    ELSE IF ~IsObj(msgs[i])
    THEN [raised |-> TRUE, user |-> last_user_message,
          assistant |-> last_assistant_message]
    ELSE LET role == Get(msgs[i], "role")
             msg_text == Get(msgs[i], "message")
             u == IF role = JStr("user") /\ last_user_message = JNull
                  THEN msg_text ELSE last_user_message
             a == IF role \in {JStr("bot"), JStr("assistant")}
                     /\ last_assistant_message = JNull
                  THEN msg_text ELSE last_assistant_message
         IN  IF u # JNull /\ a # JNull
             THEN [raised |-> FALSE, user |-> u, assistant |-> a]
             ELSE ScanMessages(msgs, i - 1, u, a)

LastMessages(artifact_obj) ==
    LET artifact_messages == OrElse(Get(artifact_obj, "messages"), EmptyList)
    IN  IF IsList(artifact_messages)
        THEN ScanMessages(artifact_messages.v, Len(artifact_messages.v), JNull, JNull)
        ELSE [raised |-> FALSE, user |-> JNull, assistant |-> JNull]

\* A .get on a value that is no dict raises AttributeError, which nothing
\* catches. Up to line 143 (before the call id is looked at):
RaisesBeforeCallId(data) ==
    LET message == Message(data)
    IN  \/ ~IsObj(data)
        \/ ~IsObj(message)
        \/ ~IsObj(CallObj(message))

\* and from line 149 to line 218:
RaisesAfterCallId(data) ==
    LET message == Message(data)
        call_obj == CallObj(message)
        assistant_obj == AssistantObj(message)
        artifact_obj == ArtifactObj(message)
    IN  \/ ~IsObj(assistant_obj)
        \/ ~IsObj(Transport(call_obj))
        \/ ~IsObj(CustomerObj(message, call_obj))
        \/ ~IsObj(PhoneNumberObj(message))
        \/ ~IsObj(ModelObj(assistant_obj))
        \/ ~IsObj(VoiceObj(assistant_obj))
        \/ ~IsObj(artifact_obj)
        \/ LastMessages(artifact_obj).raised

\* Lines 128-218 and 365-404: the parameters of the statement.
CallParams(data, call_summary) ==
    LET message == Message(data)
        call_obj == CallObj(message)
        phone_number_obj == PhoneNumberObj(message)
        customer_obj == CustomerObj(message, call_obj)
        assistant_obj == AssistantObj(message)
        artifact_obj == ArtifactObj(message)
        transport == Transport(call_obj)
        model_obj == ModelObj(assistant_obj)
        voice_obj == VoiceObj(assistant_obj)
        last == LastMessages(artifact_obj)
    IN
    [id |-> Get(call_obj, "id"),
     org_id |-> OrgId(data, message, call_obj, assistant_obj),
     event_timestamp_ms |-> Get(message, "timestamp"),
     event_type |-> Get(message, "type"),
     call_type |-> Get(call_obj, "type"),
     call_status |-> Get(call_obj, "status"),
     call_cost |-> Get(call_obj, "cost"),
     call_created_at |-> Get(call_obj, "createdAt"),
     call_updated_at |-> Get(call_obj, "updatedAt"),
     conversation_type |-> Get(transport, "conversationType"),
     transport_provider |-> Get(transport, "provider"),
     phone_call_provider |-> Get(call_obj, "phoneCallProvider"),
     phone_call_transport |-> Get(call_obj, "phoneCallTransport"),
     phone_call_provider_id |-> Get(call_obj, "phoneCallProviderId"),
     customer_number |-> Get(customer_obj, "number"),
     customer_sip_uri |-> Get(customer_obj, "sipUri"),
     phone_number_id |-> PhoneNumberId(message, phone_number_obj, call_obj),
     phone_number |-> Get(phone_number_obj, "number"),
     phone_number_name |-> Get(phone_number_obj, "name"),
     assistant_id |-> Get(assistant_obj, "id"),
     assistant_org_id |-> Get(assistant_obj, "orgId"),
     assistant_name |-> Get(assistant_obj, "name"),
     assistant_model |-> Get(model_obj, "model"),
     assistant_model_provider |-> Get(model_obj, "provider"),
     assistant_voice_id |-> Get(voice_obj, "voiceId"),
     assistant_voice_provider |-> Get(voice_obj, "provider"),
     last_user_message |-> last.user,
     last_assistant_message |-> last.assistant,
     call_summary |-> call_summary,
     tool_calls_json |-> OrElse(Get(message, "toolCalls"), EmptyList),
     tool_call_list_json |-> OrElse(Get(message, "toolCallList"), EmptyList),
     tool_with_tool_call_list_json |->
         OrElse(Get(message, "toolWithToolCallList"), EmptyList),
     artifact_json |-> artifact_obj,
     call_json |-> call_obj,
     phone_number_json |-> phone_number_obj,
     customer_json |-> customer_obj,
     assistant_json |-> assistant_obj,
     raw_payload |-> message]

(***************************************************************************)
(* Table Calls1: db.py's CREATE TABLE and the statement of submit_call.    *)
(***************************************************************************)
\* db.py, CREATE_CALLS1_TABLE_SQL: the columns init_calls1_schema creates.
CreateTableColumns ==
    {"id", "org_id", "event_timestamp_ms", "event_type",
     "call_type", "call_status", "call_cost", "call_created_at", "call_updated_at",
     "conversation_type", "transport_provider", "phone_call_provider",
     "phone_call_transport", "phone_call_provider_id",
     "customer_number", "customer_sip_uri",
     "phone_number_id", "phone_number", "phone_number_name",
     "assistant_id", "assistant_org_id", "assistant_name", "assistant_model",
     "assistant_model_provider", "assistant_voice_id", "assistant_voice_provider",
     "last_user_message", "last_assistant_message",
     "tool_calls_json", "tool_call_list_json", "tool_with_tool_call_list_json",
     "artifact_json", "call_json", "phone_number_json", "customer_json",
     "assistant_json", "raw_payload",
     "created_at", "updated_at"}

\* submit_call.py lines 244-283: the INSERT's column list.
InsertColumns ==
    {"id", "org_id", "event_timestamp_ms", "event_type",
     "call_type", "call_status", "call_cost", "call_created_at", "call_updated_at",
     "conversation_type", "transport_provider", "phone_call_provider",
     "phone_call_transport", "phone_call_provider_id",
     "customer_number", "customer_sip_uri",
     "phone_number_id", "phone_number", "phone_number_name",
     "assistant_id", "assistant_org_id", "assistant_name", "assistant_model",
     "assistant_model_provider", "assistant_voice_id", "assistant_voice_provider",
     "last_user_message", "last_assistant_message", "call_summary",
     "tool_calls_json", "tool_call_list_json", "tool_with_tool_call_list_json",
     "artifact_json", "call_json", "phone_number_json", "customer_json",
     "assistant_json", "raw_payload"}

\* submit_call.py lines 326-362: the columns ON CONFLICT sets from EXCLUDED
\* (line 363 sets updated_at to NOW()).
UpdateColumns ==
    {"org_id", "event_timestamp_ms", "event_type",
     "call_type", "call_status", "call_cost", "call_created_at", "call_updated_at",
     "conversation_type", "transport_provider", "phone_call_provider",
     "phone_call_transport", "phone_call_provider_id",
     "customer_number", "customer_sip_uri",
     "phone_number_id", "phone_number", "phone_number_name",
     "assistant_id", "assistant_org_id", "assistant_name", "assistant_model",
     "assistant_model_provider", "assistant_voice_id", "assistant_voice_provider",
     "last_user_message", "last_assistant_message", "call_summary",
     "tool_calls_json", "tool_call_list_json", "tool_with_tool_call_list_json",
     "artifact_json", "call_json", "phone_number_json", "customer_json",
     "assistant_json", "raw_payload"}

\* The strings of the inputs that are UUIDs: column id is UUID PRIMARY KEY,
\* and the cast of any other value fails.
UuidStrings == {"c1", "c2"}
IsUuid(x) == x.t = "str" /\ x.v \in UuidStrings

\* The statement is rejected for a column the table does not have and for
\* an id that is no UUID.
StatementRejected(columns, params) ==
    \/ ~(InsertColumns \subseteq columns)
    \/ ~IsUuid(params.id)

\* The row an INSERT creates: the listed columns from the parameters,
\* created_at and updated_at from their DEFAULT NOW().
InsertedRow(columns, params, t) ==
    [c \in columns |->
        IF c \in InsertColumns THEN params[c]
        ELSE IF c \in {"created_at", "updated_at"} THEN t
        ELSE JNull]

\* An update that keeps a stored value where the incoming one is null or
\* empty (a merge instead of an overwrite).
UpdatedRowMerging(row, params, t) ==
    [c \in DOMAIN row |->
        IF c \in UpdateColumns
        THEN IF c # "call_summary" /\ ~Truthy(params[c]) THEN row[c] ELSE params[c]
        ELSE IF c = "updated_at" THEN t
        ELSE row[c]]

\* ON CONFLICT (id) DO UPDATE SET ...
UpdatedRow(row, params, t) ==
    [c \in DOMAIN row |->
        IF c \in UpdateColumns THEN params[c]
        ELSE IF c = "updated_at" THEN t
        ELSE row[c]]

\* A plain INSERT into a table with no unique id: no conflict is detected.
UpsertCallNoConflict(rows, columns, params, t) ==
    rows \cup {InsertedRow(columns, params, t)}

\* A statement that replaces the table's content by the new row.
UpsertCallReplacing(rows, columns, params, t) ==
    {InsertedRow(columns, params, t)}

\* The whole statement, applied at time t: one statement, so one step.
UpsertCall(rows, columns, params, t) ==
    IF \E r \in rows : r.id = params.id
    THEN {IF r.id = params.id THEN UpdatedRow(r, params, t) ELSE r : r \in rows}
    ELSE rows \cup {InsertedRow(columns, params, t)}

(***************************************************************************)
(* Table contacts and the statement of upsert_contact (lines 55-67).       *)
(***************************************************************************)
Coalesce(a, b) == IF a # JNull THEN a ELSE b

\* A merge that takes every incoming value, null or not.
MergedContactOverwriting(row, incoming) ==
    [row EXCEPT !.first_name = incoming.first_name,
                !.last_name = incoming.last_name,
                !.email = incoming.email]

MergedContact(row, incoming) ==
    [row EXCEPT !.first_name = Coalesce(row.first_name, incoming.first_name),
                !.last_name = Coalesce(row.last_name, incoming.last_name),
                !.email = Coalesce(row.email, incoming.email)]

ContactParams(data) ==
    [phone_number |-> Get(data, "phone_number"),
     first_name |-> Get(data, "first_name"),
     last_name |-> Get(data, "last_name"),
     email |-> Get(data, "email")]

\* The database gives a new row its id.
NewContact(rows, incoming) ==
    [id |-> Cardinality(rows) + 1,
     phone_number |-> incoming.phone_number,
     first_name |-> incoming.first_name,
     last_name |-> incoming.last_name,
     email |-> incoming.email]

UpsertContactRow(rows, incoming) ==
    IF \E r \in rows : r.phone_number = incoming.phone_number
    THEN {IF r.phone_number = incoming.phone_number
          THEN MergedContact(r, incoming) ELSE r : r \in rows}
    ELSE rows \cup {NewContact(rows, incoming)}

\* RETURNING id, phone_number, first_name, last_name, email
ReturnedContact(rows, incoming) ==
    CHOOSE r \in UpsertContactRow(rows, incoming) : r.phone_number = incoming.phone_number

NoContact ==
    [id |-> 0, phone_number |-> JNull, first_name |-> JNull,
     last_name |-> JNull, email |-> JNull]

(***************************************************************************)
(* The requests: an Authorization header and a body; and what the          *)
(* environment answers while the request is handled.                       *)
(***************************************************************************)
\* request.get_json(silent=True): None for a body that is not JSON (and for
\* the JSON value null).
JsonBody(x) == [json |-> TRUE, v |-> x]
MalformedBody == [json |-> FALSE, v |-> JNull]
Parsed(body) == IF body.json THEN body.v ELSE JNull

Response(status, body) ==
    [status |-> status, body |-> body, contact |-> NoContact, toolCallId |-> JNull]
\* An exception nothing catches: the framework answers 500.
Unhandled == Response(500, "Internal Server Error")

\* What is kept of the request before the last one: its endpoint and body
\* when it was stored (200 or 201), and nothing of any other request.
Earlier(request, response) ==
    IF response.status \in {200, 201}
    THEN [endpoint |-> request.endpoint, body |-> request.body]
    ELSE [endpoint |-> "none", body |-> MalformedBody]

(***************************************************************************)
(* submit_call                                                             *)
(***************************************************************************)
\* How far the handler gets before it calls the platform (lines 109-218).
SubmitStage(expected_key, auth_header, body) ==
    LET gate == AuthGate(expected_key, auth_header)
        data == Parsed(body)
    IN  IF gate # "ok" THEN gate
        ELSE IF data = JNull THEN "bad_json"
        ELSE IF RaisesBeforeCallId(data) THEN "raised"
        ELSE IF ~Truthy(CallId(data)) THEN "no_call_id"
        ELSE IF RaisesAfterCallId(data) THEN "raised"
        ELSE "enrich"

\* A handler that calls the platform before it checks anything.
VapiChoicesBeforeChecks(stage, outcomes) == outcomes

\* The outcomes the platform can give the request: none unless the handler
\* reaches line 221.
VapiChoices(stage, outcomes) == IF stage = "enrich" THEN outcomes ELSE {NotCalled}

ReachesUpsert(stage, data, vapi) ==
    stage = "enrich" /\ ~EnrichmentRaises(CallId(data), vapi)

\* What the database can answer: nothing unless the statement is sent; an
\* error when it rejects the statement; else success, or an error of its
\* own (connectivity, a value a column's type refuses).
DbChoices(reached, columns, params) ==
    IF ~reached THEN {"not_used"}
    ELSE IF StatementRejected(columns, params) THEN {"error"}
    ELSE {"ok", "error"}

\* A handler that takes every statement it sends as executed.
SubmitOutcomeIgnoringError(stage, reached, db) ==
    IF stage # "enrich" THEN stage
    ELSE IF ~reached THEN "raised"
    ELSE "stored"

\* How the request ends.
SubmitOutcome(stage, reached, db) ==
    IF stage # "enrich" THEN stage
    ELSE IF ~reached THEN "raised"
    ELSE IF db = "ok" THEN "stored"
    ELSE "db_error"

SubmitResponse(outcome) ==
    CASE outcome = "no_secret" -> Response(500, "error: Server missing API_KEY_SECRET")
      [] outcome = "missing" -> Response(401, "error: Missing Authorization header")
      [] outcome = "invalid" -> Response(403, "error: Invalid API key")
      [] outcome = "bad_json" -> Response(400, "error: Invalid or missing JSON")
      [] outcome = "no_call_id" -> Response(400, "error: Missing call.id in payload")
      [] outcome = "raised" -> Unhandled
      [] outcome = "db_error" -> Response(500, "error: Database error")
      [] OTHER -> Response(200, "status: ok")

\* The parameters of the request's statement (a request that sends none has
\* them all the same).
StatementParams(reached, data, vapi) ==
    IF reached THEN CallParams(data, CallSummary(CallId(data), vapi))
    ELSE CallParams(EmptyObj, NoDebug)

\* (A bound variable holds a value computed once: \E x \in {e} names e.)
SubmitCall(headers, bodies, outcomes) ==
    /\ now < MaxNow
    /\ \E auth_header \in headers, body \in bodies :
       \E stage \in {SubmitStage(secret, auth_header, body)}, data \in {Parsed(body)} :
       \E vapi \in VapiChoices(stage, outcomes) :
       \E reached \in {ReachesUpsert(stage, data, vapi)} :
       \E params \in {StatementParams(reached, data, vapi)} :
       \E db \in DbChoices(reached, calls1_columns, params) :
       \E outcome \in {SubmitOutcome(stage, reached, db)} :
          /\ req' = [endpoint |-> "/submit_call", auth_header |-> auth_header,
                     body |-> body, vapi |-> vapi, db |-> db]
          /\ resp' = SubmitResponse(outcome)
          /\ before' = Earlier(req, resp)
          /\ now' = now + 1
          /\ calls' =
               IF outcome = "stored"
               THEN UpsertCall(calls, calls1_columns, params, now + 1)
               ELSE calls
          /\ accepted' =
               IF outcome = "stored" THEN accepted \cup {params.id} ELSE accepted
          /\ UNCHANGED <<secret, calls1_columns, contacts, inflight>>

(***************************************************************************)
(* upsert_contact                                                          *)
(***************************************************************************)
\* How far the handler gets before it turns to the database (lines 26-49).
ContactStage(expected_key, auth_header, body) ==
    LET gate == AuthGate(expected_key, auth_header)
        data == Parsed(body)
    IN  IF gate # "ok" THEN gate
        ELSE IF ~Truthy(data) THEN "bad_json"
        ELSE IF ~IsObj(data) THEN "raised"
        ELSE IF ~Truthy(Get(data, "phone_number")) THEN "no_phone_number"
        ELSE "upsert"

ContactDbChoices(stage) == IF stage = "upsert" THEN {"ok", "error"} ELSE {"not_used"}

ContactOutcome(stage, db) ==
    IF stage # "upsert" THEN stage
    ELSE IF db = "ok" THEN "stored"
    ELSE "db_error"

ContactResponse(outcome, rows, incoming) ==
    CASE outcome = "no_secret" -> Response(500, "error: Server missing API_KEY_SECRET")
      [] outcome = "missing" -> Response(401, "error: Missing Authorization header")
      [] outcome = "invalid" -> Response(401, "error: Invalid API key")
      [] outcome = "bad_json" -> Response(400, "error: Invalid JSON")
      [] outcome = "no_phone_number" ->
            Response(400, "error: Missing required field: phone_number")
      [] outcome = "raised" -> Unhandled
      [] outcome = "db_error" -> Response(500, "error: str(e)")
      [] OTHER -> [status |-> 201, body |-> "status: success",
                   contact |-> ReturnedContact(rows, incoming), toolCallId |-> JNull]

UpsertContact(headers, bodies) ==
    /\ now < MaxNow
    /\ \E auth_header \in headers, body \in bodies :
       \E stage \in {ContactStage(secret, auth_header, body)}, data \in {Parsed(body)} :
       \E db \in ContactDbChoices(stage) :
       \E outcome \in {ContactOutcome(stage, db)}, incoming \in {ContactParams(data)} :
          /\ req' = [endpoint |-> "/contacts", auth_header |-> auth_header,
                     body |-> body, vapi |-> NotCalled, db |-> db]
          /\ resp' = ContactResponse(outcome, contacts, incoming)
          /\ before' = Earlier(req, resp)
          /\ now' = now + 1
          /\ contacts' =
               IF outcome = "stored" THEN UpsertContactRow(contacts, incoming)
               ELSE contacts
          /\ UNCHANGED <<secret, calls1_columns, calls, accepted, inflight>>

(***************************************************************************)
(* vapi_webhook (app.py): no auth gate and no table.                       *)
(***************************************************************************)
\* {"results": [{"toolCallId": tool_call_id, "result": result}]}
ToolResult(tool_call_id) ==
    [status |-> 200, body |-> "results", contact |-> NoContact,
     toolCallId |-> tool_call_id]

\* request.get_json(force=True, silent=True) or {}
WebhookEvent(body) == OrElse(Parsed(body), EmptyObj)

\* event.get raises on an event that is no dict.
WebhookResponse(event) ==
    IF ~IsObj(event) THEN Unhandled
    ELSE IF Truthy(Get(event, "toolCallId")) THEN ToolResult(Get(event, "toolCallId"))
    ELSE Response(200, "status: ok")

VapiWebhook(bodies) ==
    /\ now < MaxNow
    /\ \E body \in bodies :
          /\ req' = [endpoint |-> "/vapi-webhook", auth_header |-> Unset,
                     body |-> body, vapi |-> NotCalled, db |-> "not_used"]
          /\ resp' = WebhookResponse(WebhookEvent(body))
          /\ before' = Earlier(req, resp)
          /\ now' = now + 1
          /\ UNCHANGED <<secret, calls1_columns, calls, contacts, accepted, inflight>>

(***************************************************************************)
(* The inputs of the runs.                                                 *)
(***************************************************************************)
SecretK == <<"k">>
Secrets == {Unset, Given(<<>>), Given(SecretK)}

NoHeader == Unset
BasicHeader == Given(<<"B", "a", "s", "i", "c", " ", "k">>)
GoodHeader == Given(BearerPrefix \o SecretK)
WrongHeader == Given(BearerPrefix \o <<"x">>)
\* "Bearer  k": a second blank before the secret
PaddedHeader == Given(BearerPrefix \o <<" ">> \o SecretK)
\* "Bearer Bearer k"
RepeatedHeader == Given(BearerPrefix \o BearerPrefix \o SecretK)

Headers == {GoodHeader, WrongHeader}
AllHeaders == {NoHeader, BasicHeader, GoodHeader, WrongHeader, PaddedHeader, RepeatedHeader}

\* The credential a header presents: what follows the first "Bearer ".
Presented(auth_header) == SubSeq(auth_header.v, Len(BearerPrefix) + 1, Len(auth_header.v))

UserSays(text) == JObj([role |-> JStr("user"), message |-> JStr(text)])
BotSays(text) == JObj([role |-> JStr("bot"), message |-> JStr(text)])

\* A tool-call event of call c1: every group of fields present.
ToolCallEvent ==
    JsonBody(JObj([message |-> JObj([
        type |-> JStr("tool-calls"),
        timestamp |-> JNum(1700),
        call |-> JObj([id |-> JStr("c1"), orgId |-> JStr("o1"),
                       type |-> JStr("inboundPhoneCall"), status |-> JStr("in-progress"),
                       transport |-> JObj([provider |-> JStr("twilio"),
                                           conversationType |-> JStr("voice")]),
                       phoneCallProvider |-> JStr("twilio")]),
        customer |-> JObj([number |-> JStr("+1555")]),
        phoneNumber |-> JObj([id |-> JStr("p1"), number |-> JStr("+1800"),
                              name |-> JStr("main")]),
        assistant |-> JObj([id |-> JStr("a1"), name |-> JStr("Ava"),
                            model |-> JObj([model |-> JStr("gpt"),
                                            provider |-> JStr("openai")]),
                            voice |-> JObj([voiceId |-> JStr("v1"),
                                            provider |-> JStr("11labs")])]),
        artifact |-> JObj([messages |-> JList(<<UserSays("hi"), BotSays("one moment")>>)]),
        toolCalls |-> JList(<<JObj([id |-> JStr("t1")])>>),
        toolCallList |-> JList(<<JObj([id |-> JStr("t1"), name |-> JStr("lookup")])>>),
        toolWithToolCallList |-> JList(<<JObj([name |-> JStr("lookup")])>>)])]))

\* An end-of-call report of a call: no tool calls, no assistant, no phone
\* number, the customer inside the call object.
EndOfCallReport(call_id) ==
    JsonBody(JObj([message |-> JObj([
        type |-> JStr("end-of-call-report"),
        timestamp |-> JNum(1800),
        call |-> JObj([id |-> JStr(call_id), type |-> JStr("inboundPhoneCall"),
                       status |-> JStr("ended"), cost |-> JNum(2),
                       customer |-> JObj([number |-> JStr("+1555")])]),
        artifact |-> JObj([messages |->
            JList(<<UserSays("hi"), BotSays("hello"), UserSays("bye")>>)])])]))

StatusUpdate ==
    JsonBody(JObj([message |-> JObj([
        type |-> JStr("status-update"),
        call |-> JObj([id |-> JStr("c1"), status |-> JStr("ringing")])])]))

NoCallIdEvent ==
    JsonBody(JObj([message |-> JObj([
        type |-> JStr("end-of-call-report"),
        call |-> JObj([status |-> JStr("ended")])])]))

NotUuidEvent ==
    JsonBody(JObj([message |-> JObj([
        type |-> JStr("end-of-call-report"),
        call |-> JObj([id |-> JStr("not-a-uuid")])])]))

\* A body that is JSON and no object.
ListBody == JsonBody(JList(<<JNum(1)>>))

SubmitBodies ==
    {ToolCallEvent, EndOfCallReport("c1"), EndOfCallReport("c2"), StatusUpdate,
     NoCallIdEvent, NotUuidEvent, MalformedBody, ListBody}

\* What the platform answers to GET /call/{id}.
SummaryS == <<"S">>
VapiOutcomes ==
    {Outcome("no_key", JNull), Outcome("timeout", JNull),
     Outcome("request_error", JNull), Outcome("bad_json", JNull),
     Outcome("json", JObj([summary |-> JText(<<" ">> \o SummaryS)])),
     Outcome("json", EmptyList)}

Contact(phone, first, last, email) ==
    JsonBody(JObj([phone_number |-> phone, first_name |-> first,
                   last_name |-> last, email |-> email]))

ContactBodies ==
    {Contact(JStr("+1555"), JStr("A"), JNull, JNull),
     Contact(JStr("+1555"), JNull, JStr("B"), JNull),
     Contact(JStr("+1555"), JStr("B"), JNull, JStr("e@x")),
     JsonBody(JObj([phone_number |-> JStr("+1666")])),
     JsonBody(JObj([first_name |-> JStr("A")])),
     JsonBody(EmptyObj),
     MalformedBody, ListBody}

(***************************************************************************)
(* The specification.                                                      *)
(***************************************************************************)
\* The server's workers: each handles one request at a time.
Workers == {1, 2}

\* A worker between two requests. A worker inside submit_call has pc
\* "upsert": it is past line 235 and its statement is not yet executed;
\* began and ended are the values of the clock when it took the request and
\* when its statement was executed.
IdleWorker ==
    [pc |-> "idle", auth_header |-> Unset, body |-> MalformedBody, vapi |-> NotCalled,
     params |-> CallParams(EmptyObj, NoDebug), began |-> 0, ended |-> 0]

NoRequest ==
    [endpoint |-> "none", auth_header |-> Unset, body |-> MalformedBody,
     vapi |-> NotCalled, db |-> "not_used"]

\* The table as init_calls1_schema creates it, or with the call_summary
\* column added to it since.
Schemas == {CreateTableColumns, CreateTableColumns \cup {"call_summary"}}

Start(secrets) ==
    /\ secret \in secrets
    /\ calls1_columns \in Schemas
    /\ calls = {}
    /\ contacts = {}
    /\ now = 0
    /\ req = NoRequest
    /\ resp = Response(0, "none")
    /\ before = Earlier(NoRequest, Response(0, "none"))
    /\ accepted = {}
    /\ inflight = [w \in Workers |-> IdleWorker]

\* The service with its secret configured: both handlers, every body and
\* every answer of the platform.
Init == Start({Given(SecretK)})

Next ==
    \/ SubmitCall(Headers, SubmitBodies, VapiOutcomes)
    \/ UpsertContact(Headers, ContactBodies)

Spec == Init /\ [][Next]_vars

\* The auth gate: every configuration of the secret and every header, with
\* two bodies per handler and two answers of the platform.
InitAuth == Start(Secrets)

NextAuth ==
    \/ SubmitCall(AllHeaders, {ToolCallEvent, EndOfCallReport("c1")},
                  {Outcome("timeout", JNull),
                   Outcome("json", JObj([summary |-> JText(SummaryS)]))})
    \/ UpsertContact(AllHeaders,
                     {Contact(JStr("+1555"), JStr("A"), JNull, JNull),
                      Contact(JStr("+1555"), JNull, JStr("B"), JNull)})

SpecAuth == InitAuth /\ [][NextAuth]_vars

(***************************************************************************)
(* The summary of the platform's answer: one event, and call objects with  *)
(* every shape of summary and analysis.summary.                            *)
(***************************************************************************)
SummaryA == <<"A">>

\* The bodies of a 200 answer to GET /call/{id} that are JSON objects.
CallObjects ==
    {JObj([summary |-> JText(<<" ">> \o SummaryS)]),
     JObj([summary |-> JText(SummaryS), analysis |-> JObj([summary |-> JText(SummaryA)])]),
     JObj([summary |-> JText(<<" ">>),
           analysis |-> JObj([summary |-> JText(SummaryA \o <<" ">>)])]),
     JObj([summary |-> JNum(5), analysis |-> JObj([summary |-> JText(SummaryA)])]),
     EmptyObj,
     JObj([summary |-> JText(<<>>), analysis |-> JNull]),
     JObj([summary |-> JText(<<" ">>), analysis |-> JObj([summary |-> JText(<<" ", " ">>)])]),
     JObj([analysis |-> EmptyObj]),
     JObj([summary |-> JText(<<" ">>), analysis |-> JText(<<"n", "/", "a">>)])}

SummaryOutcomes == {Outcome("json", d) : d \in CallObjects} \cup {Outcome("timeout", JNull)}

NextSummary == SubmitCall({GoodHeader}, {EndOfCallReport("c1")}, SummaryOutcomes)

SpecSummary == Init /\ [][NextSummary]_vars

(***************************************************************************)
(* Field extraction: events of call c1 with every shape of message list,   *)
(* of organization id and of wrongly typed field.                          *)
(***************************************************************************)
\* An event whose message object holds the given fields.
Event(fields) == JsonBody(JObj([message |-> JObj(fields)]))
CallC1 == JObj([id |-> JStr("c1")])

\* An end-of-call report with the given value of artifact.messages.
ReportWith(messages) ==
    Event([type |-> JStr("end-of-call-report"), call |-> CallC1,
           artifact |-> JObj([messages |-> messages])])

AssistantSays(text) == JObj([role |-> JStr("assistant"), message |-> JStr(text)])
SystemSays(text) == JObj([role |-> JStr("system"), message |-> JStr(text)])
\* A user message that carries no text.
UserSilent == JObj([role |-> JStr("user")])

MessageLists ==
    {<<UserSays("hi"), BotSays("hello"), UserSays("bye")>>,
     <<UserSays("hi"), AssistantSays("ok"), SystemSays("end")>>,
     <<BotSays("hello"), AssistantSays("ok")>>,
     <<UserSays("hi"), UserSays("")>>,
     <<UserSays("hi"), BotSays("hello"), UserSilent>>,
     <<>>}

MessageBodies ==
    {ReportWith(JList(l)) : l \in MessageLists}
    \cup {ReportWith(JObj([count |-> JNum(2)])),
          Event([type |-> JStr("end-of-call-report"), call |-> CallC1])}

\* The four places of an organization id.
OrgEvent(call_org, assistant_org, message_org, top_org) ==
    JsonBody(JObj([orgId |-> top_org,
                   message |-> JObj([type |-> JStr("end-of-call-report"),
                                     orgId |-> message_org,
                                     call |-> JObj([id |-> JStr("c1"), orgId |-> call_org]),
                                     assistant |-> JObj([id |-> JStr("a1"),
                                                         orgId |-> assistant_org])])]))

OrgBodies ==
    {OrgEvent(JStr("o1"), JStr("o2"), JStr("o3"), JStr("o4")),
     OrgEvent(JNull, JStr("o2"), JStr("o3"), JStr("o4")),
     OrgEvent(JNull, JNull, JStr("o3"), JStr("o4")),
     OrgEvent(JNull, JNull, JNull, JStr("o4")),
     OrgEvent(JNull, JNull, JNull, JNull),
     OrgEvent(JStr(""), JStr("o2"), JNull, JNull),
     OrgEvent(JNull, JNum(0), JStr("o3"), JNull)}

\* Bodies with a value of the wrong type in the place of an object.
MistypedBodies ==
    {ListBody,
     JsonBody(JObj([message |-> JStr("end-of-call-report")])),
     Event([type |-> JStr("end-of-call-report"), call |-> JStr("c1")]),
     Event([type |-> JStr("end-of-call-report"), call |-> CallC1, assistant |-> JNum(5)]),
     Event([type |-> JStr("end-of-call-report"), call |-> CallC1,
            customer |-> JList(<<JStr("+1555")>>)]),
     Event([type |-> JStr("end-of-call-report"),
            call |-> JObj([id |-> JStr("c1"), transport |-> JStr("pstn")])]),
     ReportWith(JList(<<UserSays("hi"), JStr("bye")>>))}

ExtractBodies == MessageBodies \cup OrgBodies \cup MistypedBodies

NextExtract == SubmitCall({GoodHeader}, ExtractBodies, {Outcome("timeout", JNull)})

SpecExtract == Init /\ [][NextExtract]_vars

(***************************************************************************)
(* submit_call handled by two workers at once. A handler shares nothing    *)
(* with another but the database, and it touches the database with one    *)
(* statement (lines 238-405), the only statement of its transaction: the   *)
(* steps of a handler are "up to the statement" and "the statement".       *)
(***************************************************************************)
Upserting == {w \in Workers : inflight[w].pc = "upsert"}

\* A handler that reads the row when it begins and writes at its end: it
\* inserts when it saw no row, also when another handler has inserted one
\* since.
ApplyReadThenWrite(rows, columns, rec, t) ==
    IF \E r \in rows : r.id = rec.params.id /\ r.created_at > rec.began
    THEN rows \cup {InsertedRow(columns, rec.params, t)}
    ELSE UpsertCall(rows, columns, rec.params, t)

\* The statement of the worker's request, executed at time t.
ApplyUpsert(rows, columns, rec, t) == UpsertCall(rows, columns, rec.params, t)

\* Lines 109-235: the request is answered at once when it does not get to
\* the statement, and else the worker holds the statement's parameters.
BeginSubmit(w, headers, bodies, outcomes) ==
    /\ inflight[w].pc # "upsert"
    /\ now + Cardinality(Upserting) < MaxNow
    /\ \E auth_header \in headers, body \in bodies :
       \E stage \in {SubmitStage(secret, auth_header, body)}, data \in {Parsed(body)} :
       \E vapi \in VapiChoices(stage, outcomes) :
       \E reached \in {ReachesUpsert(stage, data, vapi)} :
       \E params \in {StatementParams(reached, data, vapi)} :
          IF reached
          THEN /\ inflight' = [inflight EXCEPT ![w] =
                      [pc |-> "upsert", auth_header |-> auth_header, body |-> body,
                       vapi |-> vapi, params |-> params, began |-> now, ended |-> 0]]
               /\ UNCHANGED <<secret, calls1_columns, calls, contacts, now, req, resp,
                              before, accepted>>
          ELSE /\ req' = [endpoint |-> "/submit_call", auth_header |-> auth_header,
                          body |-> body, vapi |-> vapi, db |-> "not_used"]
               /\ resp' = SubmitResponse(SubmitOutcome(stage, reached, "not_used"))
               /\ before' = Earlier(req, resp)
               /\ now' = now + 1
               /\ inflight' = [inflight EXCEPT ![w] = IdleWorker]
               /\ UNCHANGED <<secret, calls1_columns, calls, contacts, accepted>>

\* Lines 238-410: the statement and the response.
ExecuteUpsert(w) ==
    /\ inflight[w].pc = "upsert"
    /\ \E rec \in {inflight[w]} :
       \E db \in DbChoices(TRUE, calls1_columns, rec.params) :
       \E outcome \in {SubmitOutcome("enrich", TRUE, db)} :
          /\ req' = [endpoint |-> "/submit_call", auth_header |-> rec.auth_header,
                     body |-> rec.body, vapi |-> rec.vapi, db |-> db]
          /\ resp' = SubmitResponse(outcome)
          /\ before' = Earlier(req, resp)
          /\ now' = now + 1
          /\ calls' =
               IF outcome = "stored"
               THEN ApplyUpsert(calls, calls1_columns, rec, now + 1)
               ELSE calls
          /\ accepted' =
               IF outcome = "stored" THEN accepted \cup {rec.params.id} ELSE accepted
          /\ inflight' = [inflight EXCEPT ![w] = [rec EXCEPT !.pc = "done",
                                                            !.ended = now + 1]]
          /\ UNCHANGED <<secret, calls1_columns, contacts>>

ConcurrentBodies == {ToolCallEvent, EndOfCallReport("c1"), NoCallIdEvent}

NextConcurrent ==
    \E w \in Workers :
        \/ BeginSubmit(w, {GoodHeader}, ConcurrentBodies,
                       {Outcome("timeout", JNull),
                        Outcome("json", JObj([summary |-> JText(SummaryS)]))})
        \/ ExecuteUpsert(w)

SpecConcurrent == Init /\ [][NextConcurrent]_vars

(***************************************************************************)
(* Validation: authorized requests with and without the identifying field. *)
(***************************************************************************)
NextValidation ==
    \/ SubmitCall({GoodHeader},
                  {MalformedBody, JsonBody(EmptyObj), NoCallIdEvent,
                   EndOfCallReport("c1"), ToolCallEvent},
                  {Outcome("timeout", JNull)})
    \/ UpsertContact({GoodHeader},
                     {MalformedBody, JsonBody(EmptyObj),
                      JsonBody(JObj([first_name |-> JStr("A")])),
                      Contact(JStr("+1555"), JStr("A"), JNull, JNull),
                      JsonBody(JObj([phone_number |-> JStr("+1666")]))})

SpecValidation == Init /\ [][NextValidation]_vars

(***************************************************************************)
(* The shape of the response: events with and without a tool call, on      *)
(* both endpoints that receive the platform's events.                      *)
(***************************************************************************)
\* The body of a function-tool call: {"toolCallId": ..., "args": {...}}.
ToolWebhookCall(tool_call_id) ==
    JsonBody(JObj([toolCallId |-> tool_call_id, args |-> JObj([q |-> JStr("x")])]))

WebhookBodies ==
    {ToolWebhookCall(JStr("t1")), ToolWebhookCall(JStr("")), ToolCallEvent,
     EndOfCallReport("c1"), JsonBody(EmptyObj), MalformedBody, ListBody}

NextResponse ==
    \/ SubmitCall({GoodHeader}, {ToolCallEvent, EndOfCallReport("c1")},
                  {Outcome("timeout", JNull)})
    \/ VapiWebhook(WebhookBodies)

SpecResponse == Init /\ [][NextResponse]_vars

(***************************************************************************)
(* The order of submit_call's effects: every way a request is turned away, *)
(* with every configuration of the secret, and events that are enriched    *)
(* and stored.                                                             *)
(***************************************************************************)
InitOrder == Start(Secrets)

NextOrder ==
    SubmitCall({NoHeader, WrongHeader, GoodHeader},
               {MalformedBody, NoCallIdEvent, EndOfCallReport("c1")},
               {Outcome("timeout", JNull), Outcome("json", EmptyList)})

SpecOrder == InitOrder /\ [][NextOrder]_vars

(***************************************************************************)
(* Properties of the call store.                                           *)
(***************************************************************************)
StoredCall == req.endpoint = "/submit_call" /\ resp.status = 200
RowsOf(id) == {r \in calls : r.id = id}
\* The columns whose value comes from the payload alone.
PayloadColumns == InsertColumns \ {"call_summary"}
\* What submit_call extracts from the last request.
LastParams ==
    CallParams(Parsed(req.body),
               CallSummary(CallId(Parsed(req.body)), req.vapi))

\* C1: when the same payload is submitted twice, both requests authorized
\* and both stored, the table holds exactly one row for its call id, and
\* every payload-derived column of the row has the value extracted from the
\* second payload.
C1_Idempotency ==
    (StoredCall /\ before.endpoint = "/submit_call" /\ before.body = req.body)
    => /\ Cardinality(RowsOf(LastParams.id)) = 1
       /\ \A r \in RowsOf(LastParams.id) :
            \A c \in PayloadColumns : r[c] = LastParams[c]

\* An end-of-call report stored twice in a row.
C1_Witness ==
    /\ StoredCall
    /\ before.endpoint = "/submit_call"
    /\ before.body = req.body
    /\ req.body = EndOfCallReport("c1")
    /\ \E r \in calls : r.id = JStr("c1") /\ r.created_at < r.updated_at

\* C2: after an accepted event e2 is stored, every column the statement
\* writes holds the value extracted from e2 (null or empty where e2 has
\* nothing), whatever an earlier event e1 of the same call left in the row,
\* and updated_at is the time of e2's statement.
C2_NewestWins ==
    StoredCall
    => \A r \in RowsOf(LastParams.id) :
         /\ \A c \in InsertColumns : r[c] = LastParams[c]
         /\ r.updated_at = now
         /\ r.created_at <= r.updated_at

\* A tool-call event, then the end-of-call report of the same call: the
\* row's tool-call list is empty and its assistant is null again.
C2_Witness ==
    /\ StoredCall
    /\ before.endpoint = "/submit_call"
    /\ before.body = ToolCallEvent
    /\ req.body = EndOfCallReport("c1")
    /\ \E r \in calls :
         /\ r.id = JStr("c1")
         /\ r.created_at < r.updated_at
         /\ r.tool_call_list_json = EmptyList
         /\ r.assistant_id = JNull
         /\ r.event_type = JStr("end-of-call-report")

\* C3: the table holds exactly one row for each call id of a stored event
\* and no other row; a row keeps its id, and no row is deleted.
C3_TableMatchesAccepted ==
    /\ \A id \in accepted : Cardinality(RowsOf(id)) = 1
    /\ \A r \in calls : r.id \in accepted

C3_RowsStay ==
    \A r \in calls : \E r2 \in calls' : r2.id = r.id /\ r2.created_at = r.created_at

C3_OneRowPerCall == [](C3_TableMatchesAccepted) /\ [][C3_RowsStay]_vars

\* Three stored events of two calls: one call was delivered twice.
C3_Witness ==
    /\ Cardinality(calls) = 2
    /\ accepted = {JStr("c1"), JStr("c2")}
    /\ \E r \in calls : r.created_at < r.updated_at

(***************************************************************************)
(* Properties of the contact registry.                                     *)
(***************************************************************************)
StoredContact == req.endpoint = "/contacts" /\ resp.status = 201
ContactFields == {"first_name", "last_name", "email"}
ContactsOf(rows, phone) == {r \in rows : r.phone_number = phone}

C4_NeverBackToNull ==
    \A r \in contacts :
        \E r2 \in contacts' :
            /\ r2.phone_number = r.phone_number
            /\ \A f \in ContactFields : r[f] # JNull => r2[f] # JNull

C4_Example ==
    (/\ StoredContact
     /\ now = 2
     /\ before.endpoint = "/contacts"
     /\ before.body = Contact(JStr("+1555"), JStr("A"), JNull, JNull)
     /\ req.body = Contact(JStr("+1555"), JNull, JStr("B"), JNull))
    => /\ Cardinality(contacts) = 1
       /\ \A r \in contacts :
            /\ r.phone_number = JStr("+1555")
            /\ r.first_name = JStr("A")
            /\ r.last_name = JStr("B")

\* C4: no upsert_contact turns a stored first_name, last_name or email that
\* is not null into null, and the contact of a phone number stays; and
\* upserting {phone X, first_name A} and then {phone X, last_name B} into an
\* empty registry leaves one contact, with first_name A and last_name B.
C4_Accumulation == [](C4_Example) /\ [][C4_NeverBackToNull]_vars

\* The second of the two upserts of the example has been stored.
C4_Witness ==
    /\ StoredContact
    /\ now = 2
    /\ before.body = Contact(JStr("+1555"), JStr("A"), JNull, JNull)
    /\ req.body = Contact(JStr("+1555"), JNull, JStr("B"), JNull)
    /\ \E r \in contacts : r.first_name = JStr("A") /\ r.last_name = JStr("B")

\* C5: an upsert_contact on a phone number that has a contact keeps each of
\* first_name, last_name and email when the incoming value is absent and
\* replaces it by the incoming value when that is present.
C5_MergePolicy ==
    [][(/\ req'.endpoint = "/contacts"
        /\ resp'.status = 201
        /\ ContactsOf(contacts, ContactParams(Parsed(req'.body)).phone_number) # {})
       => \A r \in ContactsOf(contacts, ContactParams(Parsed(req'.body)).phone_number) :
            \E r2 \in contacts' :
                /\ r2.phone_number = r.phone_number
                /\ \A f \in ContactFields :
                     r2[f] = IF ContactParams(Parsed(req'.body))[f] = JNull
                             THEN r[f]
                             ELSE ContactParams(Parsed(req'.body))[f]]_vars

(***************************************************************************)
(* Properties of the auth gate.                                            *)
(***************************************************************************)
SecretConfigured == ~NotStr(secret)
BearerForm(auth_header) == auth_header.set /\ StartsWith(auth_header.v, BearerPrefix)
TablesUnchanged == calls' = calls /\ contacts' = contacts
\* The responses of the gate's three rejections.
GateRejected ==
    resp.body \in {"error: Server missing API_KEY_SECRET",
                   "error: Missing Authorization header",
                   "error: Invalid API key"}

\* C6: with a secret configured, a request with no Authorization header or
\* one not in bearer form gets 401, a request whose bearer credential is
\* not the secret gets 401 or 403, and neither changes a table.
C6_AuthRejection ==
    [][SecretConfigured
       => /\ ~BearerForm(req'.auth_header)
             => resp'.status = 401 /\ TablesUnchanged
          /\ (BearerForm(req'.auth_header) /\ Presented(req'.auth_header) # secret.v)
             => resp'.status \in {401, 403} /\ TablesUnchanged]_vars

\* C7: with no secret configured (unset or empty), every request to either
\* handler is answered 500 "Server missing API_KEY_SECRET", whatever its
\* Authorization header, and no table changes.
C7_FailClosed ==
    [][NotStr(secret)
       => /\ resp'.status = 500
          /\ resp'.body = "error: Server missing API_KEY_SECRET"
          /\ TablesUnchanged]_vars

\* An empty secret, and a request that presents a well-formed credential.
C7_Witness ==
    /\ secret = Given(<<>>)
    /\ req.endpoint = "/submit_call"
    /\ req.auth_header = GoodHeader
    /\ req.body = ToolCallEvent
    /\ resp.status = 500
    /\ calls = {}

\* C8: with a secret configured, a request passes the gate exactly when its
\* header is in bearer form and the credential after the prefix equals the
\* secret.
C8_ExactMatch ==
    (SecretConfigured /\ req.endpoint # "none")
    => (~GateRejected
        <=> (BearerForm(req.auth_header) /\ Presented(req.auth_header) = secret.v))

(***************************************************************************)
(* Properties of the event pipeline.                                       *)
(***************************************************************************)
EventType(body) == Get(Message(Parsed(body)), "type")
UnknownEvent(body) ==
    /\ IsObj(Parsed(body))
    /\ EventType(body).t = "str"
    /\ EventType(body) \notin {JStr("tool-calls"), JStr("end-of-call-report")}

\* C9: an authorized event whose type is neither "tool-calls" nor
\* "end-of-call-report" is answered 200 "ignored" and writes nothing to the
\* call table (stated for the requests that do not end in a server error).
C9_UnknownEventIgnored ==
    [][(/\ req'.endpoint = "/submit_call"
        /\ AuthGate(secret, req'.auth_header) = "ok"
        /\ UnknownEvent(req'.body)
        /\ resp'.status # 500)
       => /\ resp'.status = 200
          /\ resp'.body = "status: ignored"
          /\ calls' = calls]_vars

\* C10: whatever the platform answers to the GET, an authorized tool-calls
\* or end-of-call-report event with a call id (a UUID) reaches the upsert, and when the database accepts the
\* statement the response is 200 and the row holds the payload's fields.
C10_EnrichmentNeverAborts ==
    (/\ req.endpoint = "/submit_call"
     /\ req.vapi # NotCalled
     /\ ~UnknownEvent(req.body)
     /\ IsUuid(CallId(Parsed(req.body))))
    => /\ req.db # "not_used"
       /\ req.db = "ok"
          => /\ resp.status = 200
             /\ \E r \in calls :
                  \A c \in PayloadColumns : r[c] = CallParams(Parsed(req.body), NoDebug)[c]

(***************************************************************************)
(* Properties of the summary enrichment.                                   *)
(***************************************************************************)
\* The call object the platform answered with, and its two summary fields.
FetchedCall == req.endpoint = "/submit_call" /\ req.vapi.kind = "json" /\ IsObj(req.vapi.data)
DirectSummary == Get(req.vapi.data, "summary")
AnalysisSummary == Get(Get(req.vapi.data, "analysis"), "summary")

\* C11: on a fetched call object, the summary is the trimmed direct summary
\* when that is a string with a non-blank character, else the trimmed
\* analysis.summary when that is one, else no summary and a diagnostic;
\* and no shape of the two fields ends the request in an error.
C11_SummaryPrecedence ==
    FetchedCall
    => /\ req.db # "not_used"
       /\ StoredCall
          => \A r \in RowsOf(CallId(Parsed(req.body))) :
               IF NonBlankString(DirectSummary)
               THEN r.call_summary = Summary(Strip(DirectSummary.v))
               ELSE IF NonBlankString(AnalysisSummary)
               THEN r.call_summary = Summary(Strip(AnalysisSummary.v))
               ELSE r.call_summary.kind # "summary"

(***************************************************************************)
(* Properties of the field extraction.                                     *)
(***************************************************************************)
\* The message list of the last request's artifact; empty when absent or
\* when the value is no list.
ArtifactMessages ==
    LET messages == Get(ArtifactObj(Message(Parsed(req.body))), "messages")
    IN  IF IsList(messages) THEN messages.v ELSE <<>>

\* The text of the latest message of the list with one of the roles; null
\* when the list has none.
LatestText(msgs, roles) ==
    LET at == {i \in 1..Len(msgs) : Get(msgs[i], "role") \in roles}
    IN  IF at = {} THEN JNull
        ELSE Get(msgs[CHOOSE i \in at : \A j \in at : j <= i], "message")

\* C12: the row of a stored event holds, as last_user_message, the text of
\* the latest message of the artifact's list whose role is "user", and as
\* last_assistant_message the text of the latest whose role is "bot" or
\* "assistant"; null for a role with no message and for an absent list.
C12_LastMessages ==
    StoredCall
    => \A r \in RowsOf(CallId(Parsed(req.body))) :
         /\ r.last_user_message = LatestText(ArtifactMessages, {JStr("user")})
         /\ r.last_assistant_message =
              LatestText(ArtifactMessages, {JStr("bot"), JStr("assistant")})

\* C13: for an authorized body that is JSON, whatever the types of its
\* values, the extraction raises no exception (the request is not ended by
\* an unhandled error before the platform is called).
C13_ExtractionTotal ==
    (/\ req.endpoint = "/submit_call"
     /\ AuthGate(secret, req.auth_header) = "ok"
     /\ Parsed(req.body) # JNull)
    => ~(resp = Unhandled /\ req.vapi = NotCalled)

\* The first value of the sequence that is not absent; null when none is.
RECURSIVE FirstPresent(_)
FirstPresent(values) ==
    IF values = <<>> THEN JNull
    ELSE IF Head(values) # JNull THEN Head(values)
    ELSE FirstPresent(Tail(values))

\* C14: the org_id of a stored row is the first value that is not absent
\* among call.orgId, assistant.orgId, message.orgId and the top-level
\* orgId, also when that value is an empty string or 0.
C14_OrgIdPrecedence ==
    StoredCall
    => \A r \in RowsOf(CallId(Parsed(req.body))) :
         r.org_id =
            FirstPresent(<<Get(CallObj(Message(Parsed(req.body))), "orgId"),
                           Get(AssistantObj(Message(Parsed(req.body))), "orgId"),
                           Get(Message(Parsed(req.body)), "orgId"),
                           Get(Parsed(req.body), "orgId")>>)

(***************************************************************************)
(* Properties of the handlers running together.                            *)
(***************************************************************************)
\* After a statement is executed, the call has one row, and every column
\* the statement writes holds the value of that one event.
C15_RowOfOneEvent ==
    StoredCall
    => /\ Cardinality(RowsOf(LastParams.id)) = 1
       /\ \A r \in RowsOf(LastParams.id) : \A c \in InsertColumns : r[c] = LastParams[c]

\* The table changes in the step of a stored event only, and there the rows
\* of the other calls stay as they are.
C15_OneStatement ==
    calls' # calls
    => /\ now' = now + 1
       /\ resp'.status = 200
       /\ \A r \in calls : r.id # CallId(Parsed(req'.body)) => r \in calls'

\* C15: however the steps of two handlers of events of one call interleave,
\* the call's row is, after each statement, the complete field set of the
\* event whose statement was executed last, never a mix of two events; and
\* no other step changes the table.
C15_AtomicUpsert == [](C15_RowOfOneEvent) /\ [][C15_OneStatement]_vars

\* Two workers took a tool-call event and the end-of-call report of call c1
\* before either statement was executed; both statements are executed, and
\* the row is the event of the worker that was last.
C15_Witness ==
    /\ inflight[1].pc = "done" /\ inflight[2].pc = "done"
    /\ inflight[1].began = 0 /\ inflight[2].began = 0
    /\ inflight[1].body = ToolCallEvent
    /\ inflight[2].body = EndOfCallReport("c1")
    /\ inflight[2].ended = 1 /\ inflight[1].ended = 2
    /\ resp.status = 200 /\ before.endpoint = "/submit_call"
    /\ \E r \in calls :
         /\ r.id = JStr("c1")
         /\ r.created_at = 1 /\ r.updated_at = 2
         /\ \A c \in InsertColumns : r[c] = inflight[1].params[c]

(***************************************************************************)
(* Properties of a failing database.                                       *)
(***************************************************************************)
\* A statement that fails: 500, and the table as it was.
C16_FailureIsClean ==
    (req'.endpoint = "/submit_call" /\ req'.db = "error")
    => resp'.status = 500 /\ calls' = calls

\* The event whose statement failed is submitted again and stored: the
\* table is what one successful delivery of the event makes of the table
\* before the failure (one row for the call with the event's values, a new
\* row dated from this statement, the other rows untouched).
C16_RetryAsOnce ==
    (/\ req.endpoint = "/submit_call" /\ req.db = "error"
     /\ req'.endpoint = "/submit_call" /\ req'.db = "ok"
     /\ req'.body = req.body)
    => LET id == CallId(Parsed(req'.body))
           p == CallParams(Parsed(req'.body), CallSummary(id, req'.vapi))
       IN  /\ resp'.status = 200
           /\ Cardinality({r \in calls' : r.id = id}) = 1
           /\ \A r \in calls' :
                r.id = id
                => /\ \A c \in InsertColumns : r[c] = p[c]
                   /\ r.updated_at = now'
                   /\ r.created_at = IF RowsOf(id) = {} THEN now'
                                     ELSE (CHOOSE r0 \in RowsOf(id) : TRUE).created_at
           /\ {r \in calls' : r.id # id} = {r \in calls : r.id # id}

\* C16: a failing upsert is answered 500 and leaves the call table as it
\* was before the request; and storing the same event once the database
\* works again leaves the table as one successful delivery would.
C16_StorageFailure == [][C16_FailureIsClean /\ C16_RetryAsOnce]_vars

\* The end-of-call report of c1 failed in the database at time 1, was
\* submitted again and stored at time 2: the row dates from time 2.
C16_Witness ==
    /\ inflight[1].pc = "done" /\ inflight[1].ended = 1
    /\ inflight[2].pc = "done" /\ inflight[2].ended = 2
    /\ inflight[2].began = 1
    /\ inflight[1].body = EndOfCallReport("c1")
    /\ inflight[2].body = EndOfCallReport("c1")
    /\ StoredCall
    /\ before.endpoint = "none"
    /\ Cardinality(calls) = 1
    /\ \A r \in calls : r.created_at = 2 /\ r.updated_at = 2

(***************************************************************************)
(* Properties of the validation.                                           *)
(***************************************************************************)
\* The identifying field of the last request's body, when the body is a
\* JSON object.
IdentifyingField(request) ==
    IF request.endpoint = "/submit_call" THEN CallId(Parsed(request.body))
    ELSE Get(Parsed(request.body), "phone_number")

MissingFieldMessage(request) ==
    IF request.endpoint = "/submit_call" THEN "error: Missing call.id in payload"
    ELSE "error: Missing required field: phone_number"

\* C17: an authorized request whose body is not JSON is answered 400, one
\* whose body is a JSON object without the identifying field (call id,
\* phone_number), the object {} included, is answered 400 with the message
\* that names the field; neither writes anything.
C17_ValidationErrors ==
    [][(req'.endpoint # "none" /\ AuthGate(secret, req'.auth_header) = "ok")
       => /\ ~req'.body.json
             => resp'.status = 400 /\ TablesUnchanged
          /\ (IsObj(Parsed(req'.body)) /\ IdentifyingField(req') = JNull)
             => /\ resp'.status = 400
                /\ resp'.body = MissingFieldMessage(req')
                /\ TablesUnchanged]_vars

(***************************************************************************)
(* Properties of the response.                                             *)
(***************************************************************************)
\* The id of the first entry of the list that has one; null when none has.
RECURSIVE FirstEntryId(_)
FirstEntryId(entries) ==
    IF entries = <<>> THEN JNull
    ELSE IF Get(Head(entries), "id") # JNull THEN Get(Head(entries), "id")
    ELSE FirstEntryId(Tail(entries))

\* The tool call an event names: its tool-call id at the top level, else
\* the id of an entry of its tool-call list.
InboundToolCallId(body) ==
    LET list == Get(Message(Parsed(body)), "toolCallList")
    IN  IF Get(Parsed(body), "toolCallId") # JNull THEN Get(Parsed(body), "toolCallId")
        ELSE IF IsList(list) THEN FirstEntryId(list.v)
        ELSE JNull

\* C18: an event that is answered 200 gets the tool-result envelope with
\* the id of its tool call when it names one, and the plain acknowledgement
\* when it names none.
C18_ResponseShape ==
    (req.endpoint \in {"/submit_call", "/vapi-webhook"} /\ resp.status = 200)
    => IF Truthy(InboundToolCallId(req.body))
       THEN resp.body = "results" /\ resp.toolCallId = InboundToolCallId(req.body)
       ELSE resp.body = "status: ok" /\ resp.toolCallId = JNull

(***************************************************************************)
(* Properties of a later event that omits fields.                          *)
(***************************************************************************)
\* The step stores an event.
StoresEvent == req'.endpoint = "/submit_call" /\ resp'.status = 200

\* C19 as stated: when an event of a recognized type is stored over the
\* row of its call, a column for which the row has a value and the event
\* has none keeps the stored value.
C19_NoLossOnAbsentFields ==
    [][(StoresEvent /\ ~UnknownEvent(req'.body))
       => \A p \in {CallParams(Parsed(req'.body), NoDebug)} :
          \A r \in calls :
             r.id = p.id
             => \E r2 \in calls' :
                  /\ r2.id = r.id
                  /\ \A c \in PayloadColumns :
                       (Truthy(r[c]) /\ ~Truthy(p[c])) => r2[c] = r[c]]_vars

\* C19, amended: when an event is stored over the row of its call, a column
\* for which the event has no value is set to the event's null (or empty
\* list or object), whatever the row held; the row keeps its id and its
\* created_at.
C19_AbsentFieldsOverwritten ==
    [][StoresEvent
       => \A p \in {CallParams(Parsed(req'.body), NoDebug)} :
          \A r \in calls :
             r.id = p.id
             => \E r2 \in calls' :
                  /\ r2.id = r.id
                  /\ r2.created_at = r.created_at
                  /\ \A c \in PayloadColumns \ {"id"} :
                       ~Truthy(p[c]) => r2[c] = p[c]]_vars

\* The end-of-call report of c1 was stored over the row of the tool-call
\* event: the assistant's name, the phone number and the tool calls that the
\* first event supplied are gone from the row.
C19_Witness ==
    /\ StoredCall
    /\ before.endpoint = "/submit_call"
    /\ before.body = ToolCallEvent
    /\ req.body = EndOfCallReport("c1")
    /\ \E r \in calls :
         /\ r.id = JStr("c1")
         /\ r.created_at = 1 /\ r.updated_at = 2
         /\ r.assistant_name = JNull
         /\ r.phone_number = JNull
         /\ r.phone_number_json = EmptyObj
         /\ r.tool_calls_json = EmptyList

(***************************************************************************)
(* Properties of the stored diagnostic.                                    *)
(***************************************************************************)
FetchFailures == {"no_key", "timeout", "request_error", "bad_json"}

\* C20: when the GET fails (no API key, timeout, request error, a body that
\* is no JSON) and the event is stored, the row's call_summary is the
\* diagnostic the fetch returned for that failure.
C20_StoredDiagnostic ==
    (StoredCall /\ req.vapi.kind \in FetchFailures)
    => \A r \in RowsOf(CallId(Parsed(req.body))) :
         r.call_summary =
            fetch_call_from_vapi(CallId(Parsed(req.body)), req.vapi).debug

(***************************************************************************)
(* Properties of the derived fields.                                       *)
(***************************************************************************)
\* The call types of the events, spelled out, and their letters in lower
\* case.
Spelled(call_type) ==
    CASE call_type = JStr("inboundPhoneCall") ->
            <<"i", "n", "b", "o", "u", "n", "d", "P", "h", "o", "n", "e", "C", "a", "l", "l">>
      [] call_type = JStr("outboundPhoneCall") ->
            <<"o", "u", "t", "b", "o", "u", "n", "d", "P", "h", "o", "n", "e",
              "C", "a", "l", "l">>
      [] call_type = JStr("webCall") -> <<"w", "e", "b", "C", "a", "l", "l">>
      [] OTHER -> <<>>

LowerCase(c) ==
    CASE c = "P" -> "p" [] c = "C" -> "c" [] c = "I" -> "i" [] c = "O" -> "o"
      [] OTHER -> c

Lowered(s) == [i \in 1..Len(s) |-> LowerCase(s[i])]

\* p occurs in s
Contains(s, p) ==
    \E i \in 1..(Len(s) - Len(p) + 1) : SubSeq(s, i, i + Len(p) - 1) = p

\* The direction of a call type: by substring, whatever the case.
Direction(call_type) ==
    IF Contains(Lowered(Spelled(call_type)), <<"i", "n", "b", "o", "u", "n", "d">>)
    THEN JStr("inbound")
    ELSE IF Contains(Lowered(Spelled(call_type)), <<"o", "u", "t", "b", "o", "u", "n", "d">>)
    THEN JStr("outbound")
    ELSE JStr("unknown")

\* C21: the row of a stored event has a direction, which is "inbound" for a
\* call type that contains "inbound", "outbound" for one that contains
\* "outbound" and "unknown" for any other or an absent call type.
C21_DirectionInference ==
    (StoredCall /\ ~UnknownEvent(req.body))
    => \A r \in RowsOf(CallId(Parsed(req.body))) :
         /\ "direction" \in DOMAIN r
         /\ r["direction"] = Direction(r.call_type)

\* C22: after an accepted call event that carries a customer phone number,
\* the contacts table has a row for that number.
C22_ContactOnFirstSighting ==
    (StoredCall /\ ~UnknownEvent(req.body))
    => \A r \in RowsOf(CallId(Parsed(req.body))) :
         r.customer_number # JNull
         => \E c \in contacts : c.phone_number = r.customer_number

(***************************************************************************)
(* Properties of the handler's order.                                      *)
(***************************************************************************)
\* The request was turned away by the gate or by the body's validation.
Rejected ==
    \/ GateRejected
    \/ resp.status = 400

\* C23: submit_call calls the platform only for a request that passed the
\* gate, whose body parsed and held a call id; it sends its statement only
\* after the enrichment returned; and a request it answers 500 for the
\* missing secret, 401, 403 or 400 calls no platform, sends no statement
\* and leaves the tables as they were.
C23_OrderOfEffects ==
    /\ [](req.endpoint = "/submit_call"
          => /\ req.vapi # NotCalled
                => /\ AuthGate(secret, req.auth_header) = "ok"
                   /\ Parsed(req.body) # JNull
                   /\ ~RaisesBeforeCallId(Parsed(req.body))
                   /\ Truthy(CallId(Parsed(req.body)))
             /\ req.db # "not_used"
                => /\ req.vapi # NotCalled
                   /\ ~EnrichmentRaises(CallId(Parsed(req.body)), req.vapi)
             /\ Rejected => req.vapi = NotCalled /\ req.db = "not_used")
    /\ [][(req'.endpoint = "/submit_call" /\ Rejected') => TablesUnchanged]_vars

\* A stored event, then a request turned away: no call, no statement, and
\* the event's row still there.
C23_Witness ==
    /\ before.endpoint = "/submit_call"
    /\ before.body = EndOfCallReport("c1")
    /\ req.endpoint = "/submit_call"
    /\ Rejected
    /\ req.vapi = NotCalled
    /\ req.db = "not_used"
    /\ RowsOf(JStr("c1")) # {}

(***************************************************************************)
(* Properties of the schema.                                               *)
(***************************************************************************)
\* C24: the statement of submit_call names, in its INSERT list and in its
\* update list, only columns of the table that init_calls1_schema creates:
\* sent to a table as created, the statement of a call with a well-formed
\* id is not rejected.
C24_SchemaAgreement ==
    (/\ req.endpoint = "/submit_call"
     /\ req.db # "not_used"
     /\ IsUuid(CallId(Parsed(req.body)))
     /\ calls1_columns = CreateTableColumns)
    => /\ (InsertColumns \cup UpdateColumns) \subseteq calls1_columns
       /\ ~StatementRejected(calls1_columns, LastParams)

====
